---- MODULE Spec2Model ----
(***************************************************************************)
(* State-machine model of webrtc/modules/desktop_capture/                  *)
(* mouse_cursor_monitor_x11.cc: MouseCursorMonitorX11 instances sharing    *)
(* one SharedXDisplay connection, the X server as their environment, and   *)
(* the consumer callbacks as observations.                                 *)
(***************************************************************************)
EXTENDS Integers, Sequences, FiniteSets, TLC

(***************************************************************************)
(* Bounds of the model.                                                    *)
(***************************************************************************)
\* Most X events that may sit undrained in the connection's queue.
MaxQueue == 2
\* Most cursor images the server hands out in one run; each image handed
\* out gets the next serial number.
MaxFetch == 2
\* Most AddEventHandler calls one monitor makes (repeated Init calls).
MaxSubscribe == 2

(***************************************************************************)
(* Program constants.                                                      *)
(***************************************************************************)
\* X11's None (no window) and C's NULL.
None == 0
NULL == 0
\* Xfixes.h: the event offset and the only subtype the monitor acts on.
XFixesCursorNotify == 1
XFixesDisplayCursorNotify == 0
\* The event base XFixesQueryExtension reports on this server.
XFixesEventBase == 87
\* xfixes_event_base_ as the constructor leaves it.
UnsetEventBase == -1
\* DefaultRootWindow(display).
RootWindow == 1

\* The monitor objects a run may hold on the one shared connection.
Mon == {1, 2}
\* The consumer's callback object (a non-null Callback*).
Callbacks == {11}
Modes == {"SHAPE_ONLY", "SHAPE_AND_POSITION"}

Min(a, b) == IF a < b THEN a ELSE b

(***************************************************************************)
(* The window tree of the server: 2 is a child of the root, 3 a child of   *)
(* 2 (a client window reparented once), 4 a child of 3.                    *)
(***************************************************************************)
Windows == {2, 3, 4}
ParentOf(w) == IF w = RootWindow THEN None ELSE IF w = 2 THEN RootWindow ELSE w - 1

\* XQueryTree(display, window, &root, &parent, ...): its status and outputs;
\* the query fails when the window does not exist (any more).
XQueryTree(w, exists) ==
    IF exists /\ w \in (Windows \cup {RootWindow})
    THEN [status |-> TRUE, root |-> RootWindow, parent |-> ParentOf(w)]
    ELSE [status |-> FALSE, root |-> None, parent |-> None]

\* GetTopLevelWindow: the while(true) loop. failAt = n > 0 makes the n-th
\* XQueryTree call fail (the window was destroyed meanwhile); 0 = none fails.
\* Returns the window (or None), the queries made and the ascensions made.
\* A loop that ascends before it tests parent == root.
RECURSIVE TopLevelLoopAscendsFirst(_, _, _, _)
TopLevelLoopAscendsFirst(window, failAt, queries, ascensions) ==
    LET q == XQueryTree(window, failAt # queries + 1)
    IN IF ~q.status
       THEN [window |-> None, queries |-> queries + 1, ascensions |-> ascensions]
       ELSE IF q.parent = q.root
            THEN [window |-> q.parent, queries |-> queries + 1,
                  ascensions |-> ascensions + 1]
            ELSE TopLevelLoopAscendsFirst(q.parent, failAt, queries + 1,
                                          ascensions + 1)
\* A loop that breaks out on a failed query instead of returning None.
RECURSIVE TopLevelLoopBreaksOnFailure(_, _, _, _)
TopLevelLoopBreaksOnFailure(window, failAt, queries, ascensions) ==
    LET q == XQueryTree(window, failAt # queries + 1)
    IN IF ~q.status \/ q.parent = q.root
       THEN [window |-> window, queries |-> queries + 1,
             ascensions |-> ascensions]
       ELSE TopLevelLoopBreaksOnFailure(q.parent, failAt, queries + 1,
                                        ascensions + 1)

RECURSIVE TopLevelLoop(_, _, _, _)
TopLevelLoop(window, failAt, queries, ascensions) ==
    LET q == XQueryTree(window, failAt # queries + 1)
    IN IF ~q.status
       THEN [window |-> None, queries |-> queries + 1, ascensions |-> ascensions]
       ELSE IF q.parent = q.root
            THEN [window |-> window, queries |-> queries + 1,
                  ascensions |-> ascensions]
            ELSE TopLevelLoop(q.parent, failAt, queries + 1, ascensions + 1)

GetTopLevelWindow(window, failAt) == TopLevelLoop(window, failAt, 0, 0)

(***************************************************************************)
(* Native cursor images (XFixesCursorImage).  A pixel is an unsigned long, *)
(* 64 bits wide, written as four 16-bit limbs, most significant first; a   *)
(* uint32_t is two limbs.                                                  *)
(***************************************************************************)
Px(a, b, c, d) == <<a, b, c, d>>

\* 2x2, hotspot inside; 0xAABBCCDD, 0x11223344, 0x55667788, 0x99AABBCC.
ImgB == [width |-> 2, height |-> 2, xhot |-> 1, yhot |-> 0,
         pixels |-> << Px(0, 0, 43707, 52445), Px(0, 0, 4386, 13124),
                       Px(0, 0, 21862, 30600), Px(0, 0, 39338, 48076) >>]
\* 1x2, hotspot (1, 5) beyond both edges; upper 32 bits of the longs set.
ImgC == [width |-> 1, height |-> 2, xhot |-> 1, yhot |-> 5,
         pixels |-> << Px(65535, 65535, 65280, 255), Px(1, 2, 3, 4) >>]

ImageIds == {"B", "C"}
NativeImage(id) == IF id = "B" THEN ImgB ELSE ImgC

\* A cast that keeps the wrong half of the long.
CastUint32High(px) == <<px[1], px[2]>>

\* static_cast<uint32_t>(unsigned long): the low 32 bits.
CastUint32(px) == <<px[3], px[4]>>

\* The copy loop: dst runs over width * height elements, src alongside.
RECURSIVE CopyPixels(_, _, _)
CopyPixels(src, n, dst) ==
    IF Len(dst) >= n THEN dst
    ELSE CopyPixels(src, n, Append(dst, CastUint32(src[Len(dst) + 1])))

\* DesktopVector hotspot(std::min(width, xhot), std::min(height, yhot)).
Hotspot(img) == <<Min(img.width, img.xhot), Min(img.height, img.yhot)>>

\* The MouseCursor CaptureCursor builds from a fetched image. serial and src
\* are bookkeeping of the model: which fetch, of which native image.
NewMouseCursor(id, serial) ==
    LET img == NativeImage(id)
    IN [width |-> img.width, height |-> img.height,
        data |-> CopyPixels(img.pixels, img.width * img.height, <<>>),
        hotspot |-> Hotspot(img), serial |-> serial, src |-> id]


(***************************************************************************)
(* State.                                                                  *)
(***************************************************************************)
VARIABLES
    \* The monitor objects: "absent" (no factory call has produced it),
    \* "alive", "destroyed"; and the fields of MouseCursorMonitorX11.
    obj, callback_, mode_, window_, have_xfixes_, xfixes_event_base_,
    cursor_shape_,
    \* The shared connection (SharedXDisplay) and the X server behind it:
    \* the registered handlers in registration order, the events queued for
    \* the client, the windows cursor input was selected on, and whether the
    \* server has the XFixes extension.
    handlers, queue, selected, srvXFixes,
    \* The process: the monitors the application makes in this run, the
    \* build ("debug": assert() aborts, "release": NDEBUG, assert() is
    \* compiled out) and whether it still runs.
    slots, build, proc,
    \* Observations: the number of images handed out by the server, the
    \* number of those never XFree'd, per monitor the fetch serial (0: none)
    \* of the last two notifications handled since its last delivery step,
    \* the serials of notification shapes that a later notification's shape
    \* came after before any delivery, whether it ever fetched, the event
    \* codes of its AddEventHandler / RemoveEventHandler calls, and a record
    \* of what the last step did.
    serial, unreleased, recent, superseded, fetched, subscribed,
    unsubscribed, lastOp

monVars == <<obj, callback_, mode_, window_, have_xfixes_, xfixes_event_base_,
             cursor_shape_>>
dispVars == <<handlers, queue, selected, srvXFixes>>
procVars == <<slots, build, proc>>
obsVars == <<serial, unreleased, recent, superseded, fetched, subscribed,
             unsubscribed, lastOp>>
vars == <<monVars, dispVars, procVars, obsVars>>

Builds == {"debug", "release"}

\* An empty scoped_ptr<MouseCursor>.
NoShape == [serial |-> 0]
HasShape(s) == s.serial # 0

\* What an operation did, as the consumer and the connection saw it.
\*   ok: it returned normally (a factory: returned an object);
\*   pumped: number of events drained; events: the events a pump by
\*   another user of the connection drained;
\*   notifs: recent[m] at the delivery step;
\*   shapes / positions: the OnMouseCursor / OnMouseCursorPosition calls;
\*   queries: the XQueryPointer outcomes; calls: the callbacks in order;
\*   tree: what a factory was given (display: options.x_display() is set;
\*   from: the window; failAt: the XQueryTree call that fails, 0 for none)
\*   and what GetTopLevelWindow did.
BlankOp(op, m) ==
    [op |-> op, m |-> m, ok |-> TRUE, pumped |-> 0, events |-> <<>>,
     notifs |-> <<>>,
     shapes |-> <<>>, positions |-> <<>>, queries |-> <<>>, calls |-> <<>>,
     tree |-> [display |-> TRUE, from |-> None, failAt |-> 0,
               window |-> None, queries |-> 0, ascensions |-> 0]]

(***************************************************************************)
(* The X server's answers.                                                 *)
(***************************************************************************)
\* XFixesGetCursorImage under an XErrorTrap: NULL; an image with an error
\* trapped; or an image and no error.
FetchOutcomes ==
    {[kind |-> "null", img |-> "-"], [kind |-> "error", img |-> "-"]}
    \cup {[kind |-> "ok", img |-> i] : i \in ImageIds}

ChildrenOf(w) == {c \in Windows : ParentOf(c) = w}
BadWindow == 3
\* Values an uninitialized int may hold.
Indeterminate == {<<0, 0>>, <<-7, 9>>}

\* XQueryPointer(display, window_, ...) under an XErrorTrap: the Bool it
\* returns, the error the trap latched, root and child, and what is then in
\* win_x, win_y. True: the pointer is on window_'s screen. False with no
\* error: it is on another screen. With an error the outputs were not written.
PointerOutcomes(w) ==
    {[result |-> TRUE, err |-> 0, root |-> RootWindow, child |-> c,
      pos |-> <<3, 4>>] : c \in {None} \cup ChildrenOf(w)}
    \cup {[result |-> TRUE, err |-> BadWindow, root |-> RootWindow, child |-> c,
           pos |-> <<3, 4>>] : c \in ChildrenOf(w)}
    \cup {[result |-> FALSE, err |-> 0, root |-> None, child |-> None,
           pos |-> <<0, 0>>]}
    \cup {[result |-> FALSE, err |-> BadWindow, root |-> None, child |-> None,
           pos |-> p] : p \in Indeterminate}

(***************************************************************************)
(* CaptureCursor and HandleXEvent, on a record w of what they can change:  *)
(* shape (cursor_shape_ of every monitor), serial, unreleased, recent,     *)
(* superseded, fetched.                                                    *)
(***************************************************************************)
World == [shape |-> cursor_shape_, serial |-> serial, unreleased |-> unreleased,
          recent |-> recent, superseded |-> superseded, fetched |-> fetched]

NoAnswer == [kind |-> "null", img |-> "-", serial |-> 0]
\* XFixesGetCursorImage: the server's answer oc; an image handed out gets the
\* next serial.
XFixesGetCursorImage(w, oc) ==
    IF oc.kind = "null" THEN NoAnswer
    ELSE [kind |-> oc.kind, img |-> oc.img, serial |-> w.serial + 1]
Served(w, ans) == [w EXCEPT !.serial = IF ans.kind = "null" THEN @ ELSE @ + 1]

\* A CaptureCursor that keeps a shape already pending.
CaptureCursorKeepPending(w, m, ans) ==
    LET w1 == [w EXCEPT !.fetched[m] = TRUE]
    IN IF ans.kind = "null"
       THEN w1
       ELSE IF ans.kind = "error"
            THEN [w1 EXCEPT !.unreleased = @ + 1]
            ELSE IF HasShape(w.shape[m]) THEN w1
                 ELSE [w1 EXCEPT !.shape[m] = NewMouseCursor(ans.img, ans.serial)]

\* A CaptureCursor that empties the slot before it fetches.
CaptureCursorResetsFirst(w, m, ans) ==
    LET w1 == [w EXCEPT !.fetched[m] = TRUE, !.shape[m] = NoShape]
    IN IF ans.kind = "null"
       THEN w1
       ELSE IF ans.kind = "error"
            THEN [w1 EXCEPT !.unreleased = @ + 1]
            ELSE [w1 EXCEPT !.shape[m] = NewMouseCursor(ans.img, ans.serial)]

\* MouseCursorMonitorX11::CaptureCursor, given the answer to its fetch.
CaptureCursor(w, m, ans) ==
    LET w1 == [w EXCEPT !.fetched[m] = TRUE]
    IN IF ans.kind = "null"
       THEN w1
       ELSE IF ans.kind = "error"
            \* img is not NULL, the trap holds an error: return, no XFree.
            THEN [w1 EXCEPT !.unreleased = @ + 1]
            \* convert, XFree(img), cursor_shape_.reset(new MouseCursor).
            ELSE [w1 EXCEPT !.shape[m] = NewMouseCursor(ans.img, ans.serial)]

\* A HandleXEvent that does not look at the subtype.
IsCursorChangeAnySubtype(m, event) ==
    /\ have_xfixes_[m]
    /\ event.type = xfixes_event_base_[m] + XFixesCursorNotify

\* The condition under which HandleXEvent recaptures.
IsCursorChange(m, event) ==
    /\ have_xfixes_[m]
    /\ event.type = xfixes_event_base_[m] + XFixesCursorNotify
    /\ event.subtype = XFixesDisplayCursorNotify

\* A HandleXEvent that reports the events it acted on as consumed.
HandleXEventConsumes(w, m, event, ans) ==
    [w |-> IF IsCursorChange(m, event) THEN CaptureCursor(w, m, ans) ELSE w,
     ret |-> IsCursorChange(m, event)]

\* MouseCursorMonitorX11::HandleXEvent: the state after it and what it returns.
HandleXEvent(w, m, event, ans) ==
    [w |-> IF IsCursorChange(m, event) THEN CaptureCursor(w, m, ans) ELSE w,
     ret |-> FALSE]

\* Bookkeeping of a notification handled by m: the serial of the shape
\* fetched for it (0: the fetch gave none), and the earlier notifications'
\* shapes that fetch came after.
LastTwo(s) == IF Len(s) > 2 THEN SubSeq(s, Len(s) - 1, Len(s)) ELSE s
NoteNotification(w, m, ans) ==
    LET got == IF ans.kind = "ok" THEN ans.serial ELSE 0
        prev == {w.recent[m][i] : i \in 1..Len(w.recent[m])} \ {0}
    IN [w EXCEPT !.recent[m] = LastTwo(Append(@, got)),
                 !.superseded[m] = IF got # 0 THEN @ \cup prev ELSE @]

(***************************************************************************)
(* SharedXDisplay: the handler registry and the event pump.                *)
(***************************************************************************)
AddEventHandler(hs, type, m) == Append(hs, [type |-> type, handler |-> m])
RemoveEventHandler(hs, type, m) ==
    SelectSeq(hs, LAMBDA h : ~(h.type = type /\ h.handler = m))
HandlersFor(hs, type) == SelectSeq(hs, LAMBDA h : h.type = type)

\* One event to the handlers registered for its type, in order, until one
\* returns true. k counts the fetch outcomes used so far.
RECURSIVE Dispatch(_, _, _, _, _)
Dispatch(w, hs, event, ocs, k) ==
    IF hs = <<>> THEN [w |-> w, k |-> k]
    ELSE LET m == Head(hs).handler
             fetch == IsCursorChange(m, event)
             ans == IF fetch THEN XFixesGetCursorImage(w, ocs[k + 1]) ELSE NoAnswer
             r == HandleXEvent(Served(w, ans), m, event, ans)
             w1 == IF fetch THEN NoteNotification(r.w, m, ans) ELSE r.w
             k1 == IF fetch THEN k + 1 ELSE k
         IN IF r.ret THEN [w |-> w1, k |-> k1]
            ELSE Dispatch(w1, Tail(hs), event, ocs, k1)

\* SharedXDisplay::ProcessPendingXEvents: drain the queue q.
RECURSIVE ProcessPendingXEvents(_, _, _, _, _)
ProcessPendingXEvents(w, hs, q, ocs, k) ==
    IF q = <<>> THEN w
    ELSE LET r == Dispatch(w, HandlersFor(hs, Head(q).type), Head(q), ocs, k)
         IN ProcessPendingXEvents(r.w, hs, Tail(q), ocs, r.k)

\* The cursor fetches draining q can make, and the server's answers to
\* them: at most MaxFetch images are handed out in a run.
FetchesIn(hs, q) ==
    Cardinality({ij \in (1..Len(q)) \X (1..Len(hs)) :
                    /\ hs[ij[2]].type = q[ij[1]].type
                    /\ IsCursorChange(hs[ij[2]].handler, q[ij[1]])})
Images(ocs) == Cardinality({i \in DOMAIN ocs : ocs[i].kind # "null"})
FetchAnswers(n) ==
    {ocs \in [1..n -> FetchOutcomes] : serial + Images(ocs) <= MaxFetch}


(***************************************************************************)
(* Initial state: no monitor exists yet.                                   *)
(***************************************************************************)
InitState(ms, bs) ==
    /\ slots = ms
    /\ build \in bs
    /\ obj = [m \in Mon |-> "absent"]
    /\ callback_ = [m \in Mon |-> NULL]
    /\ mode_ = [m \in Mon |-> "SHAPE_AND_POSITION"]
    /\ window_ = [m \in Mon |-> None]
    /\ have_xfixes_ = [m \in Mon |-> FALSE]
    /\ xfixes_event_base_ = [m \in Mon |-> UnsetEventBase]
    /\ cursor_shape_ = [m \in Mon |-> NoShape]
    /\ handlers = <<>>
    /\ queue = <<>>
    /\ selected = {}
    /\ srvXFixes \in BOOLEAN
    /\ proc = "running"
    /\ serial = 0
    /\ unreleased = 0
    /\ recent = [m \in Mon |-> <<>>]
    /\ superseded = [m \in Mon |-> {}]
    /\ fetched = [m \in Mon |-> FALSE]
    /\ subscribed = [m \in Mon |-> <<>>]
    /\ unsubscribed = [m \in Mon |-> <<>>]
    /\ lastOp = BlankOp("none", 0)

\* One monitor on the connection. No assertion fails while the consumer
\* keeps to the contract, so the build is immaterial there.
Init == InitState({1}, {"release"})
InitMisuse == InitState({1}, Builds)

(***************************************************************************)
(* The factories and the constructor.                                      *)
(***************************************************************************)
\* MouseCursorMonitorX11::MouseCursorMonitorX11(options, window).
Construct(m, window) ==
    /\ obj' = [obj EXCEPT ![m] = "alive"]
    /\ callback_' = [callback_ EXCEPT ![m] = NULL]
    /\ mode_' = [mode_ EXCEPT ![m] = "SHAPE_AND_POSITION"]
    /\ window_' = [window_ EXCEPT ![m] = window]
    /\ have_xfixes_' = [have_xfixes_ EXCEPT ![m] = FALSE]
    /\ xfixes_event_base_' = [xfixes_event_base_ EXCEPT ![m] = UnsetEventBase]
    /\ cursor_shape_' = [cursor_shape_ EXCEPT ![m] = NoShape]

\* MouseCursorMonitor::CreateForScreen; hasDisplay: options.x_display() is set.
CreateForScreen(m, hasDisplay) ==
    /\ proc = "running"
    /\ m \in slots
    /\ obj[m] = "absent"
    /\ IF hasDisplay
       THEN /\ Construct(m, RootWindow)
            /\ lastOp' = BlankOp("CreateForScreen", m)
       ELSE /\ UNCHANGED monVars
            /\ lastOp' = [BlankOp("CreateForScreen", m) EXCEPT
                            !.ok = FALSE, !.tree.display = FALSE]
    /\ UNCHANGED <<dispVars, procVars, serial, unreleased, recent, superseded,
                   fetched, subscribed, unsubscribed>>

\* MouseCursorMonitor::CreateForWindow.
CreateForWindow(m, window, hasDisplay, failAt) ==
    /\ proc = "running"
    /\ m \in slots
    /\ obj[m] = "absent"
    /\ IF ~hasDisplay
       THEN /\ UNCHANGED monVars
            /\ lastOp' = [BlankOp("CreateForWindow", m) EXCEPT
                            !.ok = FALSE, !.tree.display = FALSE,
                            !.tree.from = window, !.tree.failAt = failAt]
       ELSE LET r == GetTopLevelWindow(window, failAt)
                t == [display |-> TRUE, from |-> window, failAt |-> failAt,
                      window |-> r.window, queries |-> r.queries,
                      ascensions |-> r.ascensions]
            IN IF r.window = None
               THEN /\ UNCHANGED monVars
                    /\ lastOp' = [BlankOp("CreateForWindow", m) EXCEPT
                                    !.ok = FALSE, !.tree = t]
               ELSE /\ Construct(m, r.window)
                    /\ lastOp' = [BlankOp("CreateForWindow", m) EXCEPT !.tree = t]
    /\ UNCHANGED <<dispVars, procVars, serial, unreleased, recent, superseded,
                   fetched, subscribed, unsubscribed>>

(***************************************************************************)
(* assert(): in a debug build a failed assertion aborts the process.       *)
(***************************************************************************)
Abort(op, m) ==
    /\ proc' = "aborted"
    /\ lastOp' = [BlankOp(op, m) EXCEPT !.ok = FALSE]
    /\ UNCHANGED <<monVars, dispVars, slots, build, serial, unreleased, recent,
                   superseded, fetched, subscribed, unsubscribed>>

(***************************************************************************)
(* MouseCursorMonitorX11::Init, after its assertions.                      *)
(***************************************************************************)
\* An Init whose CaptureCursor call is outside the if (have_xfixes_).
SeedCaptureUnguarded(m, have, ans) == CaptureCursor(Served(World, ans), m, ans)

\* An Init that subscribes and does not fetch.
SeedCaptureOmitted(m, have, ans) == World

\* The initial CaptureCursor of Init, made only with the extension.
SeedCapture(m, have, ans) ==
    IF have THEN CaptureCursor(Served(World, ans), m, ans) ELSE World

InitBody(m, callback, mode, oc) ==
    LET have == srvXFixes       \* XFixesQueryExtension
        base == IF have THEN XFixesEventBase ELSE xfixes_event_base_[m]
        code == base + XFixesCursorNotify
        ans == IF have THEN XFixesGetCursorImage(World, oc) ELSE NoAnswer
        w == SeedCapture(m, have, ans)
    IN /\ callback_' = [callback_ EXCEPT ![m] = callback]
       /\ mode_' = [mode_ EXCEPT ![m] = mode]
       /\ have_xfixes_' = [have_xfixes_ EXCEPT ![m] = have]
       /\ xfixes_event_base_' = [xfixes_event_base_ EXCEPT ![m] = base]
       \* XFixesSelectCursorInput, AddEventHandler
       /\ selected' = IF have THEN selected \cup {window_[m]} ELSE selected
       /\ handlers' = IF have THEN AddEventHandler(handlers, code, m) ELSE handlers
       /\ subscribed' = IF have THEN [subscribed EXCEPT ![m] = Append(@, code)]
                        ELSE subscribed
       \* CaptureCursor
       /\ cursor_shape_' = w.shape
       /\ serial' = w.serial
       /\ unreleased' = w.unreleased
       /\ fetched' = w.fetched
       \* the calls of the if (have_xfixes_) branch, in the order made
       /\ lastOp' = [BlankOp("Init", m) EXCEPT
                       !.calls = IF have
                                 THEN <<"XFixesSelectCursorInput",
                                        "AddEventHandler", "CaptureCursor">>
                                 ELSE <<>>]
       /\ UNCHANGED <<obj, window_, queue, srvXFixes, procVars, recent,
                      superseded, unsubscribed>>

InitAnswers == FetchAnswers(IF srvXFixes THEN 1 ELSE 0)
InitAnswer(ocs) == IF DOMAIN ocs = {} THEN [kind |-> "null", img |-> "-"] ELSE ocs[1]

\* Init on an instance it was not yet called on.
InitMonitor(m, callback, mode) ==
    /\ proc = "running"
    /\ obj[m] = "alive"
    /\ callback_[m] = NULL
    /\ \E ocs \in InitAnswers : InitBody(m, callback, mode, InitAnswer(ocs))

\* Init called again: assert(!callback_) fails.
InitTwice(m, callback, mode) ==
    /\ proc = "running"
    /\ obj[m] = "alive"
    /\ callback_[m] # NULL
    /\ Len(subscribed[m]) < MaxSubscribe
    /\ IF build = "debug"
       THEN Abort("Init", m)
       ELSE \E ocs \in InitAnswers : InitBody(m, callback, mode, InitAnswer(ocs))


(***************************************************************************)
(* MouseCursorMonitorX11::Capture, after its assertion.                    *)
(***************************************************************************)
\* A classification that forgets the child window.
CursorStateIgnoresChild(window, pq) ==
    IF ~pq.result \/ pq.err # 0 THEN "OUTSIDE" ELSE "INSIDE"
\* A classification that forgets the screen case.
CursorStateNoScreenCase(window, pq) ==
    IF ~pq.result \/ pq.err # 0
    THEN "OUTSIDE"
    ELSE IF pq.child # None THEN "INSIDE" ELSE "OUTSIDE"
\* A classification that forgets the error trap.
CursorStateIgnoresTrap(window, pq) ==
    IF ~pq.result
    THEN "OUTSIDE"
    ELSE IF window = pq.root \/ pq.child # None THEN "INSIDE" ELSE "OUTSIDE"

\* The CursorState Capture computes from the pointer query.
CursorState(window, pq) ==
    IF ~pq.result \/ pq.err # 0
    THEN "OUTSIDE"
    ELSE IF window = pq.root \/ pq.child # None THEN "INSIDE" ELSE "OUTSIDE"

NoPointer == [result |-> FALSE, err |-> 0, root |-> None, child |-> None,
              pos |-> <<0, 0>>]
PointerAnswers(m) ==
    IF mode_[m] = "SHAPE_AND_POSITION" THEN PointerOutcomes(window_[m])
    ELSE {NoPointer}

\* A Capture that samples the position in every mode.
PositionCallsInEveryMode(m, pq) ==
    IF callback_[m] # NULL
    THEN <<[callback |-> callback_[m], state |-> CursorState(window_[m], pq),
            pos |-> pq.pos]>>
    ELSE <<>>

\* The callbacks Capture makes, in order, once the events are pumped; a call
\* through a null callback_ ends the process there.
ShapeCalls(m, shape) ==
    IF HasShape(shape) /\ callback_[m] # NULL
    THEN <<[callback |-> callback_[m], cursor |-> shape]>> ELSE <<>>
PositionCalls(m, pq) ==
    IF mode_[m] = "SHAPE_AND_POSITION" /\ callback_[m] # NULL
    THEN <<[callback |-> callback_[m], state |-> CursorState(window_[m], pq),
            pos |-> pq.pos]>>
    ELSE <<>>

\* A Capture that looks at the pending slot before it pumps the events.
PendingShapeBeforePump(m, w) == cursor_shape_[m]
\* cursor_shape_.get() after ProcessPendingXEvents: w is the state the pump
\* left.
PendingShape(m, w) == w.shape[m]

\* A Capture that hands the shape over with get() and keeps it.
ReleaseKeepsShape(m, shape, held) == held
\* cursor_shape_.release(): the slots after the delivery of shape.
Release(m, shape, held) ==
    IF HasShape(shape) THEN [held EXCEPT ![m] = NoShape] ELSE held

CaptureBody(m, ocs, pq) ==
    LET w == ProcessPendingXEvents(World, handlers, queue, ocs, 0)
        shape == PendingShape(m, w)
        position == mode_[m] = "SHAPE_AND_POSITION"
        crash == callback_[m] = NULL /\ (HasShape(shape) \/ position)
        shapes == ShapeCalls(m, shape)
        positions == PositionCalls(m, pq)
    IN /\ queue' = <<>>
       /\ cursor_shape_' = Release(m, shape, w.shape)
       /\ serial' = w.serial
       /\ unreleased' = w.unreleased
       /\ fetched' = w.fetched
       /\ superseded' = w.superseded
       /\ recent' = [w.recent EXCEPT ![m] = <<>>]
       /\ proc' = IF crash THEN "crashed" ELSE proc
       /\ lastOp' = [BlankOp("Capture", m) EXCEPT
                       !.ok = ~crash,
                       !.pumped = Len(queue),
                       !.notifs = w.recent[m],
                       !.shapes = shapes,
                       !.queries = IF position THEN <<pq>> ELSE <<>>,
                       !.positions = positions,
                       !.calls = [i \in 1..Len(shapes) |-> "shape"]
                                 \o [i \in 1..Len(positions) |-> "position"]]
       /\ UNCHANGED <<obj, callback_, mode_, window_, have_xfixes_,
                      xfixes_event_base_, handlers, selected, srvXFixes, slots,
                      build, subscribed, unsubscribed>>

\* Capture on an instance Init was called on.
Capture(m) ==
    /\ proc = "running"
    /\ obj[m] = "alive"
    /\ callback_[m] # NULL
    /\ \E ocs \in FetchAnswers(FetchesIn(handlers, queue)), pq \in PointerAnswers(m) :
           CaptureBody(m, ocs, pq)

\* Capture before Init: assert(callback_) fails.
CaptureBeforeInit(m) ==
    /\ proc = "running"
    /\ obj[m] = "alive"
    /\ callback_[m] = NULL
    /\ IF build = "debug"
       THEN Abort("Capture", m)
       ELSE \E ocs \in FetchAnswers(FetchesIn(handlers, queue)),
               pq \in PointerAnswers(m) : CaptureBody(m, ocs, pq)

\* Another user of the shared connection (another capturer) drains the queue.
OtherPump ==
    /\ proc = "running"
    /\ queue # <<>>
    /\ \E ocs \in FetchAnswers(FetchesIn(handlers, queue)) :
         LET w == ProcessPendingXEvents(World, handlers, queue, ocs, 0)
         IN /\ queue' = <<>>
            /\ cursor_shape_' = w.shape
            /\ serial' = w.serial
            /\ unreleased' = w.unreleased
            /\ fetched' = w.fetched
            /\ superseded' = w.superseded
            /\ recent' = w.recent
            /\ lastOp' = [BlankOp("Pump", 0) EXCEPT !.pumped = Len(queue),
                                                    !.events = queue]
    /\ UNCHANGED <<obj, callback_, mode_, window_, have_xfixes_,
                   xfixes_event_base_, handlers, selected, srvXFixes, procVars,
                   subscribed, unsubscribed>>

(***************************************************************************)
(* MouseCursorMonitorX11::~MouseCursorMonitorX11.                          *)
(***************************************************************************)
\* A destructor that forgets the XFixesCursorNotify offset.
DtorEventCodeNoOffset(m) == xfixes_event_base_[m]

\* The event code the destructor unregisters.
DtorEventCode(m) == xfixes_event_base_[m] + XFixesCursorNotify

Destroy(m) ==
    LET code == DtorEventCode(m)
    IN /\ proc = "running"
       /\ obj[m] = "alive"
       /\ obj' = [obj EXCEPT ![m] = "destroyed"]
       /\ handlers' = IF have_xfixes_[m] THEN RemoveEventHandler(handlers, code, m)
                      ELSE handlers
       /\ unsubscribed' = IF have_xfixes_[m]
                          THEN [unsubscribed EXCEPT ![m] = Append(@, code)]
                          ELSE unsubscribed
       \* the scoped_ptr member deletes an undelivered shape
       /\ cursor_shape_' = [cursor_shape_ EXCEPT ![m] = NoShape]
       /\ lastOp' = BlankOp("Destroy", m)
       /\ UNCHANGED <<callback_, mode_, window_, have_xfixes_, xfixes_event_base_,
                      queue, selected, srvXFixes, procVars, serial, unreleased,
                      recent, superseded, fetched, subscribed>>

(***************************************************************************)
(* The X server queues an event for the client.  Cursor notifications are  *)
(* sent only once XFixesSelectCursorInput asked for them.                  *)
(***************************************************************************)
CursorEvents ==
    {[type |-> XFixesEventBase + XFixesCursorNotify, subtype |-> s] :
        s \in {XFixesDisplayCursorNotify, XFixesDisplayCursorNotify + 1}}
OtherEvents == {[type |-> XFixesEventBase, subtype |-> 0]}

ServerEvent(e) ==
    /\ proc = "running"
    /\ Len(queue) < MaxQueue
    /\ e \in CursorEvents => srvXFixes /\ selected # {}
    /\ queue' = Append(queue, e)
    /\ lastOp' = BlankOp("XEvent", 0)
    /\ UNCHANGED <<monVars, handlers, selected, srvXFixes, procVars, serial,
                   unreleased, recent, superseded, fetched, subscribed,
                   unsubscribed>>

(***************************************************************************)
(* Specifications.  Spec: the consumer keeps to the interface's contract   *)
(* (Init once, Capture after Init).  SpecMisuse: it may also break it.     *)
(***************************************************************************)
Next ==
    \/ \E m \in Mon, d \in BOOLEAN : CreateForScreen(m, d)
    \/ \E m \in Mon, w \in Windows \cup {RootWindow}, d \in BOOLEAN, f \in 0..3 :
           CreateForWindow(m, w, d, f)
    \/ \E m \in Mon, c \in Callbacks, md \in Modes : InitMonitor(m, c, md)
    \/ \E m \in Mon : Capture(m)
    \/ \E m \in Mon : Destroy(m)
    \/ OtherPump
    \/ \E e \in CursorEvents \cup OtherEvents : ServerEvent(e)

Misuse ==
    \/ \E m \in Mon, c \in Callbacks, md \in Modes : InitTwice(m, c, md)
    \/ \E m \in Mon : CaptureBeforeInit(m)

\* Two monitors of the screen on one connection of a server with XFixes,
\* both in SHAPE_ONLY mode, and display-cursor notifications only.
InitShared == InitState(Mon, {"release"}) /\ srvXFixes
NextShared ==
    \/ \E m \in Mon : CreateForScreen(m, TRUE)
    \/ \E m \in Mon, c \in Callbacks : InitMonitor(m, c, "SHAPE_ONLY")
    \/ \E m \in Mon : Capture(m)
    \/ \E m \in Mon : Destroy(m)
    \/ ServerEvent([type |-> XFixesEventBase + XFixesCursorNotify,
                    subtype |-> XFixesDisplayCursorNotify])

Spec == Init /\ [][Next]_vars
SpecShared == InitShared /\ [][NextShared]_vars
SpecMisuse == InitMisuse /\ [][Next \/ Misuse]_vars


(***************************************************************************)
(* Properties.                                                             *)
(***************************************************************************)
FailedQuery(pq) == ~pq.result \/ pq.err # 0
HandlersOf(m) == SelectSeq(handlers, LAMBDA h : h.handler = m)
CursorNotifyCode == XFixesEventBase + XFixesCursorNotify

\* C1: when a monitor handled two display-cursor notifications since its
\* last Capture and the second one's fetch gave a shape, its Capture makes
\* exactly one OnMouseCursor call, carrying that shape; a shape fetched for
\* an earlier notification of the pair is never delivered, then or later.
C1_LatestShapeDelivered ==
    lastOp.op = "Capture" =>
        /\ (Len(lastOp.notifs) = 2 /\ lastOp.notifs[2] # 0) =>
              /\ Len(lastOp.shapes) = 1
              /\ lastOp.shapes[1].cursor.serial = lastOp.notifs[2]
              /\ lastOp.notifs[1] # lastOp.notifs[2]
        /\ \A i \in 1..Len(lastOp.shapes) :
              lastOp.shapes[i].cursor.serial \notin superseded[lastOp.m]
\* Two notifications, both fetches gave a shape, the second was delivered.
C1_Witness ==
    /\ lastOp.op = "Capture"
    /\ Len(lastOp.notifs) = 2
    /\ lastOp.notifs[1] # 0
    /\ lastOp.notifs[2] # 0
    /\ Len(lastOp.shapes) = 1
    /\ lastOp.shapes[1].cursor.serial = lastOp.notifs[2]
    /\ lastOp.notifs[1] \in superseded[lastOp.m]

\* C2: a monitor whose Init found no XFixes extension never registers a
\* handler, never fetches a cursor image, keeps an empty pending shape and
\* never calls OnMouseCursor, whatever is captured or dispatched.
C2_NoExtensionNoShape ==
    \A m \in Mon :
        (callback_[m] # NULL /\ ~have_xfixes_[m]) =>
            /\ subscribed[m] = <<>>
            /\ HandlersOf(m) = <<>>
            /\ ~fetched[m]
            /\ cursor_shape_[m] = NoShape
            /\ (lastOp.m = m => lastOp.shapes = <<>>)
\* A Capture of such a monitor that drained events.
C2_Witness ==
    /\ lastOp.op = "Capture"
    /\ ~have_xfixes_[lastOp.m]
    /\ lastOp.pumped > 0
    /\ lastOp.ok

\* C3: every stored or delivered shape has its hotspot inside its bitmap:
\* 0 <= x < width, 0 <= y < height, the reported hotspot clamped to
\* width - 1 and height - 1.
InsideBitmap(c) ==
    LET img == NativeImage(c.src)
    IN /\ 0 <= c.hotspot[1] /\ c.hotspot[1] < c.width
       /\ 0 <= c.hotspot[2] /\ c.hotspot[2] < c.height
       /\ c.hotspot = <<Min(img.xhot, img.width - 1), Min(img.yhot, img.height - 1)>>
C3_HotspotInsideBitmap ==
    /\ \A m \in Mon : HasShape(cursor_shape_[m]) => InsideBitmap(cursor_shape_[m])
    /\ \A i \in 1..Len(lastOp.shapes) : InsideBitmap(lastOp.shapes[i].cursor)

\* C4: the bitmap of every stored or delivered shape has the native image's
\* width and height and width * height elements, element i being the low 32
\* bits of native element i; the 2x2 example is delivered unchanged.
ConvertedFrom(c) ==
    LET img == NativeImage(c.src)
    IN /\ c.width = img.width /\ c.height = img.height
       /\ Len(c.data) = img.width * img.height
       /\ \A i \in 1..(img.width * img.height) :
             c.data[i] = SubSeq(img.pixels[i], 3, 4)
       /\ c.src = "B" => c.data = << <<43707, 52445>>, <<4386, 13124>>,
                                    <<21862, 30600>>, <<39338, 48076>> >>
C4_PixelsConverted ==
    /\ \A m \in Mon : HasShape(cursor_shape_[m]) => ConvertedFrom(cursor_shape_[m])
    /\ \A i \in 1..Len(lastOp.shapes) : ConvertedFrom(lastOp.shapes[i].cursor)
\* A delivered shape whose native pixels had their upper 32 bits set.
C4_Witness ==
    /\ lastOp.op = "Capture"
    /\ Len(lastOp.shapes) = 1
    /\ lastOp.shapes[1].cursor.src = "C"
    /\ lastOp.shapes[1].cursor.data = << <<65280, 255>>, <<3, 4>> >>

\* C5: Init on a monitor that is already Active fails and changes nothing:
\* callback, mode, extension flag, event base, registered handlers and
\* pending shape stay as they were, and no cursor image is fetched.
C5_SecondInitRejected ==
    [][\A m \in Mon :
          (callback_[m] # NULL /\ lastOp'.op = "Init" /\ lastOp'.m = m) =>
              /\ ~lastOp'.ok
              /\ UNCHANGED <<callback_, mode_, have_xfixes_, xfixes_event_base_,
                             handlers, selected, cursor_shape_, subscribed,
                             serial>>]_vars

\* C6: Capture on a monitor Init was never called on fails: it drains no
\* event, makes no pointer query and no callback.
C6_CaptureBeforeInitRejected ==
    [][\A m \in Mon :
          (callback_[m] = NULL /\ lastOp'.op = "Capture" /\ lastOp'.m = m) =>
              /\ ~lastOp'.ok
              /\ lastOp'.queries = <<>>
              /\ lastOp'.calls = <<>>
              /\ UNCHANGED <<queue, cursor_shape_, serial>>]_vars

C8_WindowTargetByChild ==
    (lastOp.op = "Capture" /\ lastOp.queries # <<>>
        /\ window_[lastOp.m] # RootWindow /\ ~FailedQuery(lastOp.queries[1])) =>
        /\ Len(lastOp.positions) = 1
        /\ lastOp.positions[1].state =
              IF lastOp.queries[1].child = None THEN "OUTSIDE" ELSE "INSIDE"
\* A window monitor saw the pointer outside its window.
C8_Witness ==
    /\ lastOp.op = "Capture" /\ lastOp.queries # <<>>
    /\ window_[lastOp.m] \in Windows
    /\ ~FailedQuery(lastOp.queries[1])
    /\ lastOp.queries[1].child = None
    /\ lastOp.positions[1].state = "OUTSIDE"

\* C9: for the screen target every delivered position is INSIDE, whatever
\* the child window, unless the query failed, and then it is OUTSIDE.
C9_ScreenTargetInside ==
    (lastOp.op = "Capture" /\ lastOp.queries # <<>>
        /\ window_[lastOp.m] = RootWindow) =>
        /\ Len(lastOp.positions) = 1
        /\ lastOp.positions[1].state =
              IF FailedQuery(lastOp.queries[1]) THEN "OUTSIDE" ELSE "INSIDE"
\* A screen monitor, the pointer over no child window: INSIDE.
C9_Witness ==
    /\ lastOp.op = "Capture" /\ lastOp.queries # <<>>
    /\ window_[lastOp.m] = RootWindow
    /\ ~FailedQuery(lastOp.queries[1])
    /\ lastOp.queries[1].child = None
    /\ lastOp.positions[1].state = "INSIDE"

\* C10: whenever the pointer query returns failure or the trap holds an
\* error, that Capture still returns normally and makes exactly one
\* position callback, with OUTSIDE; its only other callback is the shape's.
C10_FailedQueryOutside ==
    (lastOp.op = "Capture" /\ lastOp.queries # <<>>
        /\ FailedQuery(lastOp.queries[1])) =>
        /\ lastOp.ok /\ proc = "running"
        /\ Len(lastOp.positions) = 1
        /\ lastOp.positions[1].state = "OUTSIDE"
        /\ lastOp.calls \in {<<"position">>, <<"shape", "position">>}
\* The query returned True over a child window, but the trap held an error.
C10_Witness ==
    /\ lastOp.op = "Capture" /\ lastOp.queries # <<>>
    /\ lastOp.queries[1].result
    /\ lastOp.queries[1].err # 0
    /\ lastOp.queries[1].child # None
    /\ lastOp.positions[1].state = "OUTSIDE"


\* C11: the mode Init stored is kept from then on, and it gates position
\* sampling: a Capture in SHAPE_AND_POSITION mode makes one pointer query and
\* one position callback, a Capture in SHAPE_ONLY mode makes neither.
C11_ModeGatesPosition ==
    [][\A m \in Mon :
          /\ callback_[m] # NULL => mode_'[m] = mode_[m]
          /\ (lastOp'.op = "Capture" /\ lastOp'.m = m) =>
                IF mode_[m] = "SHAPE_AND_POSITION"
                THEN Len(lastOp'.queries) = 1 /\ Len(lastOp'.positions) = 1
                ELSE lastOp'.queries = <<>> /\ lastOp'.positions = <<>>]_vars
\* A SHAPE_ONLY monitor drained events and delivered a shape, no position.
C11_Witness ==
    /\ lastOp.op = "Capture"
    /\ mode_[lastOp.m] = "SHAPE_ONLY"
    /\ lastOp.pumped > 0
    /\ lastOp.calls = <<"shape">>
    /\ lastOp.queries = <<>>

\* The ancestors of a window in the server's tree, itself included, and the
\* number of parent steps from it up to the child of the root.
RECURSIVE AncestorsOrSelf(_)
AncestorsOrSelf(w) ==
    IF w = None \/ w = RootWindow THEN {} ELSE {w} \cup AncestorsOrSelf(ParentOf(w))
DepthBelowRoot(w) == Cardinality(AncestorsOrSelf(w)) - 1

\* C12: for a valid window k parent steps below the child of the root, with
\* no query failing, GetTopLevelWindow ends after exactly k ascensions with
\* the ancestor-or-self whose parent is the root; k = 0 returns the window.
C12_TopLevelAfterKAscensions ==
    (lastOp.op = "CreateForWindow" /\ lastOp.ok) =>
        /\ lastOp.tree.window \in AncestorsOrSelf(lastOp.tree.from)
        /\ ParentOf(lastOp.tree.window) = RootWindow
        /\ lastOp.tree.ascensions = DepthBelowRoot(lastOp.tree.from)
        /\ lastOp.tree.queries = DepthBelowRoot(lastOp.tree.from) + 1
        /\ window_[lastOp.m] = lastOp.tree.window
        /\ (DepthBelowRoot(lastOp.tree.from) = 0 =>
               lastOp.tree.window = lastOp.tree.from)
\* A window two levels below the top-level window was resolved.
C12_Witness ==
    /\ lastOp.op = "CreateForWindow" /\ lastOp.ok
    /\ DepthBelowRoot(lastOp.tree.from) = 2
    /\ lastOp.tree.ascensions = 2
    /\ lastOp.tree.window # lastOp.tree.from

\* C13: when the n-th XQueryTree call fails, GetTopLevelWindow returns None
\* after exactly n queries and CreateForWindow returns no object; without a
\* display connection both factories return no object and query nothing.
C13_FailureGivesNoInstance ==
    /\ (lastOp.op = "CreateForWindow" /\ lastOp.tree.display
          /\ lastOp.tree.failAt \in 1..(DepthBelowRoot(lastOp.tree.from) + 1)) =>
          /\ ~lastOp.ok
          /\ lastOp.tree.window = None
          /\ lastOp.tree.queries = lastOp.tree.failAt
    /\ (lastOp.op \in {"CreateForWindow", "CreateForScreen"}
          /\ ~lastOp.tree.display) =>
          /\ ~lastOp.ok
          /\ lastOp.tree.queries = 0
    /\ (lastOp.op \in {"CreateForWindow", "CreateForScreen"} /\ ~lastOp.ok) =>
          obj[lastOp.m] = "absent"
\* The second query of a walk from a nested window failed.
C13_Witness ==
    /\ lastOp.op = "CreateForWindow"
    /\ lastOp.tree.display
    /\ lastOp.tree.failAt = 2
    /\ lastOp.tree.queries = 2
    /\ ~lastOp.ok
    /\ obj[lastOp.m] = "absent"


\* The serial of the last notification of ns whose fetch gave a shape, 0 if
\* none did.
LastFetched(ns) ==
    LET good == {i \in 1..Len(ns) : ns[i] # 0}
    IN IF good = {} THEN 0 ELSE ns[CHOOSE i \in good : \A j \in good : j <= i]

\* C14: a Capture drains the queue first, then makes at most one shape
\* callback, then the position callback; a shape fetched for a notification
\* this Capture pumped is delivered by this Capture and is not left pending.
C14_PumpShapePositionOrder ==
    lastOp.op = "Capture" =>
        /\ queue = <<>>
        /\ lastOp.calls \in {<<>>, <<"shape">>, <<"position">>,
                             <<"shape", "position">>}
        /\ Len(lastOp.shapes) <= 1
        /\ LastFetched(lastOp.notifs) # 0 =>
              /\ Len(lastOp.shapes) = 1
              /\ lastOp.shapes[1].cursor.serial = LastFetched(lastOp.notifs)
        /\ ~HasShape(cursor_shape_[lastOp.m])
\* A Capture pumped a notification and made both callbacks, shape first.
C14_Witness ==
    /\ lastOp.op = "Capture"
    /\ lastOp.pumped > 0
    /\ LastFetched(lastOp.notifs) # 0
    /\ lastOp.calls = <<"shape", "position">>
    /\ lastOp.shapes[1].cursor.serial = LastFetched(lastOp.notifs)


\* A step in which no fetch gave a shape: every image the server handed out
\* in it came with an error (it is counted in unreleased), the other fetches
\* returned null.
NoFetchSucceeds == serial' - serial = unreleased' - unreleased

\* C15: a fetch that returns null or that the error guard rejects leaves the
\* pending slot as it was: after an Init or a pump whose fetches all failed
\* every slot is unchanged, and a Capture whose fetches all failed delivers
\* exactly what was pending before it, nothing if the slot was empty.
C15_FailedFetchKeepsPending ==
    [][NoFetchSucceeds =>
          /\ lastOp'.op \in {"Init", "Pump"} => cursor_shape_' = cursor_shape_
          /\ lastOp'.op = "Capture" =>
                LET m == lastOp'.m
                IN /\ lastOp'.shapes =
                         IF HasShape(cursor_shape_[m])
                         THEN <<[callback |-> callback_[m],
                                 cursor |-> cursor_shape_[m]]>>
                         ELSE <<>>
                   /\ \A n \in Mon \ {m} : cursor_shape_'[n] = cursor_shape_[n]]_vars
\* A notification's fetch failed while an earlier shape was pending, and the
\* earlier shape is still pending.
C15_Witness ==
    /\ lastOp.op = "Pump"
    /\ \E m \in Mon :
          /\ Len(recent[m]) = 2
          /\ recent[m][1] # 0
          /\ recent[m][2] = 0
          /\ cursor_shape_[m].serial = recent[m][1]


\* The events of q that tell monitor m the displayed cursor changed: their
\* type is the cursor-notify code m subscribed to and their subtype is
\* "display cursor changed".
DisplayCursorEvents(m, q) ==
    {i \in 1..Len(q) : /\ have_xfixes_[m]
                       /\ <<q[i].type>> = subscribed[m]
                       /\ q[i].subtype = XFixesDisplayCursorNotify}

\* C16: only a "display cursor changed" event of the subscribed cursor-notify
\* code makes a monitor fetch. A pump whose events are all of another kind
\* for m (another subtype, another type, or m has no extension) leaves m's
\* slot and the record of its fetches and notifications as they were, and
\* when that is so for every monitor the server is asked for no image.
C16_OnlyDisplayCursorNotifyFetches ==
    [][lastOp'.op \in {"Pump", "Capture"} =>
          /\ \A m \in Mon :
                DisplayCursorEvents(m, queue) = {} =>
                   /\ fetched'[m] = fetched[m]
                   /\ superseded'[m] = superseded[m]
                   /\ lastOp'.op = "Pump" =>
                         /\ cursor_shape_'[m] = cursor_shape_[m]
                         /\ recent'[m] = recent[m]
                   /\ (lastOp'.op = "Capture" /\ lastOp'.m = m) =>
                         /\ lastOp'.notifs = recent[m]
                         /\ lastOp'.shapes =
                               IF HasShape(cursor_shape_[m])
                               THEN <<[callback |-> callback_[m],
                                       cursor |-> cursor_shape_[m]]>>
                               ELSE <<>>
          /\ (\A m \in Mon : DisplayCursorEvents(m, queue) = {}) =>
                serial' = serial /\ unreleased' = unreleased]_vars
\* A subscribed monitor was handed a cursor-notify event of another subtype
\* and an event of another type, and fetched nothing.
C16_Witness ==
    /\ lastOp.op = "Pump"
    /\ \E m \in Mon :
          /\ have_xfixes_[m]
          /\ HandlersOf(m) # <<>>
          /\ \E i \in 1..Len(lastOp.events) :
                /\ lastOp.events[i].type = xfixes_event_base_[m] + XFixesCursorNotify
                /\ lastOp.events[i].subtype # XFixesDisplayCursorNotify
          /\ \E i \in 1..Len(lastOp.events) :
                lastOp.events[i].type # xfixes_event_base_[m] + XFixesCursorNotify
          /\ recent[m] = <<>>
          /\ serial = 0


\* The length of m's notification record after k more notifications.
NotedAfter(m, k) == Min(2, Len(recent[m]) + k)

\* C17: no handler consumes an event, so when one monitor's Capture pumps the
\* shared connection every registered monitor is handed every event: the
\* record of each grows by the display-cursor events drained, each keeps the
\* shape of its own last successful fetch in its own slot, and the capturing
\* monitor delivers the one it holds.
C17_EveryInstanceObserves ==
    [][lastOp'.op = "Capture" =>
          \A m \in Mon :
             HandlersOf(m) # <<>> =>
                LET k == Cardinality(DisplayCursorEvents(m, queue))
                IN IF m = lastOp'.m
                   THEN /\ Len(lastOp'.notifs) = NotedAfter(m, k)
                        /\ LastFetched(lastOp'.notifs) # 0 =>
                              /\ Len(lastOp'.shapes) = 1
                              /\ lastOp'.shapes[1].cursor.serial =
                                    LastFetched(lastOp'.notifs)
                   ELSE /\ Len(recent'[m]) = NotedAfter(m, k)
                        /\ LastFetched(recent'[m]) # 0 =>
                              cursor_shape_'[m].serial = LastFetched(recent'[m])
                        /\ k = 0 => cursor_shape_'[m] = cursor_shape_[m]]_vars
\* Monitor 1 delivered, at a Capture of its own that pumped nothing, a shape
\* it fetched for an event pumped by monitor 2's Capture, which had stored
\* and delivered a shape of its own for that event.
C17_Witness ==
    /\ lastOp.op = "Capture"
    /\ lastOp.m = 1
    /\ lastOp.pumped = 0
    /\ obj[2] = "alive" /\ HandlersOf(2) # <<>>
    /\ Len(lastOp.notifs) = 1
    /\ Len(lastOp.shapes) = 1
    /\ lastOp.shapes[1].cursor.serial = lastOp.notifs[1]
    /\ lastOp.notifs[1] = 1
    /\ serial = 2
    /\ unreleased = 0
    /\ recent[2] = <<>>


C19_DeliveryEmptiesSlot ==
    [][/\ lastOp'.op = "Capture" =>
             LET m == lastOp'.m
             IN /\ ~HasShape(cursor_shape_'[m])
                /\ Len(lastOp'.shapes) <= 1
                /\ \A i \in 1..Len(lastOp'.shapes) :
                      \/ lastOp'.shapes[i].cursor = cursor_shape_[m]
                      \/ lastOp'.shapes[i].cursor.serial > serial
                /\ (~HasShape(cursor_shape_[m]) /\ NoFetchSucceeds) =>
                      lastOp'.shapes = <<>>
       /\ \A m \in Mon :
             (HasShape(cursor_shape_'[m]) /\ cursor_shape_'[m] # cursor_shape_[m]) =>
                 /\ cursor_shape_'[m].serial > serial
                 /\ cursor_shape_'[m].serial <= serial']_vars
\* The shape Init fetched was delivered by an earlier Capture; this Capture,
\* with no notification since, made no shape callback.
C19_Witness ==
    /\ lastOp.op = "Capture"
    /\ obj[lastOp.m] = "alive"
    /\ have_xfixes_[lastOp.m]
    /\ serial = 1
    /\ unreleased = 0
    /\ lastOp.notifs = <<>>
    /\ lastOp.shapes = <<>>
    /\ ~HasShape(cursor_shape_[lastOp.m])

\* C20: every image XFixesGetCursorImage handed out has been freed when
\* CaptureCursor returns, so no image is ever left unreleased.
C20_NoImageLeftUnreleased == unreleased = 0

====
